---- MODULE Spec2Model ----
(***************************************************************************)
(* Learning-rate schedules of lib/utils.py: the three schedule classes,    *)
(* their get_learning_rate methods and the factory                         *)
(* get_learning_rate_schedules.                                            *)
(*                                                                         *)
(* Numbers.  Interval, Length and the epoch are Python ints.  Initial,     *)
(* Final, Factor and Value are Python floats.  A float is modelled as a    *)
(* rational <<n, d>> in lowest terms (d > 0) that is representable with a  *)
(* MantBits-bit binary significand; every float operation returns the      *)
(* exact result rounded to the nearest such number, ties to even, as       *)
(* IEEE-754 does with a 53-bit significand.  Exponent range (overflow,     *)
(* underflow), infinities and NaN are not modelled.                        *)
(***************************************************************************)
EXTENDS Integers, Sequences, FiniteSets, TLC

VARIABLES specs, pc, schedules, error, last, prev

vars == <<specs, pc, schedules, error, last, prev>>

(***************************************************************************)
(* Bounds of the model.                                                    *)
(***************************************************************************)
MantBits == 3
MaxSpecs == 2
MaxEpoch == 4
MaxBefore == 4
MaxLength == 3
MaxInterval == 2

(***************************************************************************)
(* Exact rational arithmetic.                                              *)
(***************************************************************************)
Abs(x) == IF x < 0 THEN -x ELSE x

RECURSIVE GCD(_, _)
GCD(a, b) == IF b = 0 THEN a ELSE GCD(b, a % b)

Norm(n, d) ==
    LET s == IF d < 0 THEN -1 ELSE 1
        g == GCD(Abs(n), Abs(d))
    IN  <<(s * n) \div g, (s * d) \div g>>

RAdd(x, y) == Norm(x[1] * y[2] + y[1] * x[2], x[2] * y[2])
RSub(x, y) == Norm(x[1] * y[2] - y[1] * x[2], x[2] * y[2])
RMul(x, y) == Norm(x[1] * y[1], x[2] * y[2])
RDiv(x, y) == Norm(x[1] * y[2], x[2] * y[1])
RLess(x, y) == x[1] * y[2] < y[1] * x[2]
RLeq(x, y) == x[1] * y[2] <= y[1] * x[2]
FromInt(i) == <<i, 1>>

RECURSIVE RPow(_, _)
RPow(x, k) == IF k = 0 THEN <<1, 1>> ELSE RMul(x, RPow(x, k - 1))

(***************************************************************************)
(* Rounding to a MantBits-bit significand, round-half-to-even.             *)
(***************************************************************************)
NearestEven(n, d) ==
    LET m == n \div d
        r == n - m * d
    IN  IF 2 * r > d \/ (2 * r = d /\ m % 2 = 1) THEN m + 1 ELSE m

RECURSIVE RoundPos(_, _)
RoundPos(n, d) ==
    IF n < (2 ^ (MantBits - 1)) * d
    THEN LET h == RoundPos(2 * n, d) IN Norm(h[1], 2 * h[2])
    ELSE IF n >= (2 ^ MantBits) * d
         THEN LET h == RoundPos(n, 2 * d) IN Norm(2 * h[1], h[2])
         ELSE <<NearestEven(n, d), 1>>

Round(x) ==
    IF x[1] = 0 THEN <<0, 1>>
    ELSE IF x[1] < 0
         THEN LET r == RoundPos(-x[1], x[2]) IN <<-r[1], r[2]>>
         ELSE RoundPos(x[1], x[2])

IsFloat(x) == Round(x) = x

(***************************************************************************)
(* Results of an evaluation: a value or a raised exception.                *)
(***************************************************************************)
Ok(v) == [ok |-> TRUE, val |-> v]
Raise(e) == [ok |-> FALSE, err |-> e]

(***************************************************************************)
(* Python operators on floats (an int operand is converted exactly).       *)
(***************************************************************************)
fadd(x, y) == Round(RAdd(x, y))
fsub(x, y) == Round(RSub(x, y))
fmul(x, y) == Round(RMul(x, y))

\* a division that guards the zero divisor
TrueDivGuarded(x, y) ==
    IF y[1] = 0 THEN Ok(<<0, 1>>) ELSE Ok(Round(RDiv(x, y)))

\* x / y: ZeroDivisionError when y is zero
TrueDiv(x, y) ==
    IF y[1] = 0 THEN Raise("ZeroDivisionError") ELSE Ok(Round(RDiv(x, y)))

\* division rounded to the nearest integer
FloorDivNearest(a, b) ==
    IF b = 0 THEN Raise("ZeroDivisionError") ELSE Ok((2 * a + b) \div (2 * b))

\* division truncated toward zero, as C and Java divide
FloorDivTrunc(a, b) ==
    IF b = 0 THEN Raise("ZeroDivisionError")
    ELSE Ok(IF a < 0 THEN -((-a) \div b) ELSE a \div b)

\* a // b on ints: floor (rounded toward negative infinity);
\* ZeroDivisionError when b is zero
FloorDiv(a, b) ==
    IF b = 0 THEN Raise("ZeroDivisionError") ELSE Ok(a \div b)

\* x ** k for a float x and an int k
PyPow(x, k) ==
    IF k >= 0 THEN Ok(Round(RPow(x, k)))
    ELSE IF x[1] = 0 THEN Raise("ZeroDivisionError")
         ELSE Ok(Round(RDiv(<<1, 1>>, RPow(x, -k))))

(***************************************************************************)
(* The schedule classes.                                                   *)
(***************************************************************************)
ConstantLearningRateSchedule(value) ==
    [cls |-> "Constant", value |-> value]

\* a constant schedule that rejects epochs before the first
ConstantGetLearningRatePositive(self, epoch) ==
    IF epoch < 0 THEN Raise("ValueError") ELSE Ok(self.value)

ConstantGetLearningRate(self, epoch) == Ok(self.value)

StepLearningRateSchedule(initial, interval, factor) ==
    [cls |-> "Step", initial |-> initial, interval |-> interval,
     factor |-> factor]

\* self.initial * (self.factor ** (epoch // self.interval))
StepGetLearningRate(self, epoch) ==
    LET q == FloorDiv(epoch, self.interval)
    IN  IF ~q.ok THEN q
        ELSE LET p == PyPow(self.factor, q.val)
             IN  IF ~p.ok THEN p ELSE Ok(fmul(self.initial, p.val))

WarmupLearningRateSchedule(initial, warmed_up, length) ==
    [cls |-> "Warmup", initial |-> initial, warmed_up |-> warmed_up,
     length |-> length]

\* the boundary test with >= in place of >
PastWarmupInclusive(self, epoch) == epoch >= self.length

\* the boundary test one epoch late
PastWarmupLate(self, epoch) == epoch > self.length + 1

\* the test of the first branch: epoch > self.length
PastWarmup(self, epoch) == epoch > self.length

\* the interpolation with the operands of the subtraction exchanged
WarmupGetLearningRateSwapped(self, epoch) ==
    IF PastWarmup(self, epoch) THEN Ok(self.warmed_up)
    ELSE LET num == fmul(fsub(self.initial, self.warmed_up), FromInt(epoch))
             quo == TrueDiv(num, FromInt(self.length))
         IN  IF ~quo.ok THEN quo ELSE Ok(fadd(self.initial, quo.val))

WarmupGetLearningRate(self, epoch) ==
    IF PastWarmup(self, epoch) THEN Ok(self.warmed_up)
    ELSE LET num == fmul(fsub(self.warmed_up, self.initial), FromInt(epoch))
             quo == TrueDiv(num, FromInt(self.length))
         IN  IF ~quo.ok THEN quo ELSE Ok(fadd(self.initial, quo.val))

\* dynamic dispatch of schedule.get_learning_rate(epoch)
get_learning_rate(self, epoch) ==
    CASE self.cls = "Constant" -> ConstantGetLearningRate(self, epoch)
      [] self.cls = "Step" -> StepGetLearningRate(self, epoch)
      [] self.cls = "Warmup" -> WarmupGetLearningRate(self, epoch)

\* a schedule that keeps its current rate in self.initial
SelfAfterDecay(self, epoch) ==
    IF self.cls = "Step"
    THEN [self EXCEPT !.initial = fmul(self.initial, self.factor)]
    ELSE self

\* the fields of the object after get_learning_rate returned or raised:
\* none of the three methods assigns to self
SelfAfter(self, epoch) == self

(***************************************************************************)
(* The factory.                                                            *)
(***************************************************************************)
\* a dispatch that falls back to a default schedule
MakeScheduleDefault(rec) ==
    IF rec.Type = "Step"
    THEN Ok(StepLearningRateSchedule(rec.Initial, rec.Interval, rec.Factor))
    ELSE IF rec.Type = "Warmup"
         THEN Ok(WarmupLearningRateSchedule(rec.Initial, rec.Final,
                                            rec.Length))
         ELSE IF rec.Type = "Constant"
              THEN Ok(ConstantLearningRateSchedule(rec.Value))
              ELSE Ok(ConstantLearningRateSchedule(<<0, 1>>))

\* the loop body's dispatch on schedule_specs["Type"]
MakeSchedule(rec) ==
    IF rec.Type = "Step"
    THEN Ok(StepLearningRateSchedule(rec.Initial, rec.Interval, rec.Factor))
    ELSE IF rec.Type = "Warmup"
         THEN Ok(WarmupLearningRateSchedule(rec.Initial, rec.Final,
                                            rec.Length))
         ELSE IF rec.Type = "Constant"
              THEN Ok(ConstantLearningRateSchedule(rec.Value))
              ELSE Raise(rec.Type)

\* a loop that inserts at the front of the list
RECURSIVE BuildLoopFront(_, _, _)
BuildLoopFront(list, i, acc) ==
    IF i > Len(list) THEN Ok(acc)
    ELSE LET s == MakeSchedule(list[i])
         IN  IF ~s.ok THEN s
             ELSE BuildLoopFront(list, i + 1, <<s.val>> \o acc)

\* the for loop from record i on, acc being the list appended to so far
RECURSIVE BuildLoop(_, _, _)
BuildLoop(list, i, acc) ==
    IF i > Len(list) THEN Ok(acc)
    ELSE LET s == MakeSchedule(list[i])
         IN  IF ~s.ok THEN s ELSE BuildLoop(list, i + 1, Append(acc, s.val))

get_learning_rate_schedules(list) == BuildLoop(list, 1, <<>>)

(***************************************************************************)
(* Inputs.                                                                 *)
(***************************************************************************)
Epochs == (-MaxBefore)..MaxEpoch
Lengths == 0..MaxLength
Intervals == 0..MaxInterval

\* zero and the floats of three consecutive binades (1/4 up to 7/4 for a
\* 3-bit significand)
Floats ==
    {<<0, 1>>} \cup
    {Norm(m, 2 ^ k) : m \in (2 ^ (MantBits - 1))..(2 ^ MantBits - 1),
                      k \in (MantBits - 1)..(MantBits + 1)}

\* zero and the floats of the top binade (1 up to 7/4 for a 3-bit
\* significand)
TopFloats ==
    {<<0, 1>>} \cup
    {Norm(m, 2 ^ (MantBits - 1)) :
        m \in (2 ^ (MantBits - 1))..(2 ^ MantBits - 1)}

Half == <<1, 2>>
One == <<1, 1>>

ConstantSpecs == {[Type |-> "Constant", Value |-> v] : v \in {Half, One}}

StepSpecs(A, I, F) ==
    {[Type |-> "Step", Initial |-> a, Interval |-> n, Factor |-> f] :
        a \in A, n \in I, f \in F}

WarmupSpecs(A, B, L) ==
    {[Type |-> "Warmup", Initial |-> a, Final |-> b, Length |-> n] :
        a \in A, b \in B, n \in L}

UnknownSpecs == {[Type |-> t] : t \in {"Bogus", "step"}}

\* the records of the list-level runs: every variant, two unknown tags
\* (one differing from a known tag by case only); the Warmup record has a
\* zero Length, so that some queries of a built list raise
SmallSpecs ==
    ConstantSpecs \cup UnknownSpecs
        \cup {[Type |-> "Step", Initial |-> One, Interval |-> MaxInterval,
                Factor |-> Half],
               [Type |-> "Warmup", Initial |-> One, Final |-> Half,
                Length |-> 0]}

Lists(S, lo, hi) == UNION {[1..n -> S] : n \in lo..hi}

NoQuery == [idx |-> 0, epoch |-> 0, res |-> Raise("none")]

(***************************************************************************)
(* The state machine: a caller builds the list once and then queries it.   *)
(***************************************************************************)
InitWith(L) ==
    /\ specs \in L
    /\ pc = "start"
    /\ schedules = <<>>
    /\ error = ""
    /\ last = NoQuery
    /\ prev = NoQuery

Init == InitWith(Lists(SmallSpecs, 0, MaxSpecs))

InitStep == InitWith(Lists(StepSpecs(TopFloats, Intervals, Floats), 1, 1))

InitWarmup == InitWith(Lists(WarmupSpecs(TopFloats, Floats, Lengths), 1, 1))

\* schedules = get_learning_rate_schedules(specs)
Build ==
    /\ pc = "start"
    /\ LET r == get_learning_rate_schedules(specs)
       IN  IF r.ok
           THEN /\ schedules' = r.val
                /\ pc' = "built"
                /\ error' = error
           ELSE /\ schedules' = schedules
                /\ pc' = "failed"
                /\ error' = r.err
    /\ UNCHANGED <<specs, last, prev>>

\* schedules[i].get_learning_rate(epoch)
Query(i, epoch) ==
    /\ pc = "built"
    /\ i \in 1..Len(schedules)
    /\ last' = [idx |-> i, epoch |-> epoch,
                res |-> get_learning_rate(schedules[i], epoch)]
    /\ prev' = last
    /\ schedules' = [schedules EXCEPT ![i] = SelfAfter(@, epoch)]
    /\ UNCHANGED <<specs, pc, error>>

Next ==
    \/ Build
    \/ \E i \in 1..MaxSpecs, epoch \in Epochs : Query(i, epoch)

Spec == Init /\ [][Next]_vars

SpecStep == InitStep /\ [][Next]_vars

SpecWarmup == InitWarmup /\ [][Next]_vars

(***************************************************************************)
(* Vocabulary of the properties.                                           *)
(***************************************************************************)
KnownTypes == {"Step", "Warmup", "Constant"}

AllKnown(list) == \A i \in 1..Len(list) : list[i].Type \in KnownTypes

FirstUnknown(list) ==
    CHOOSE i \in 1..Len(list) :
        /\ list[i].Type \notin KnownTypes
        /\ \A j \in 1..(i - 1) : list[j].Type \in KnownTypes

Queried == pc = "built" /\ last.idx # 0

\* the schedule the last query was made on, and its record
Cur == schedules[last.idx]
CurSpec == specs[last.idx]

\* the value record rec's formula gives at epoch e
RecordRate(rec, e) ==
    CASE rec.Type = "Constant" -> Ok(rec.Value)
      [] rec.Type = "Step" ->
            StepGetLearningRate(
                [cls |-> "Step", initial |-> rec.Initial,
                 interval |-> rec.Interval, factor |-> rec.Factor], e)
      [] rec.Type = "Warmup" ->
            WarmupGetLearningRate(
                [cls |-> "Warmup", initial |-> rec.Initial,
                 warmed_up |-> rec.Final, length |-> rec.Length], e)

\* record i and schedule i are the same variant with the same parameters
SameVariant(rec, sch) ==
    CASE rec.Type = "Constant" ->
            /\ sch.cls = "Constant"
            /\ sch.value = rec.Value
      [] rec.Type = "Step" ->
            /\ sch.cls = "Step"
            /\ sch.initial = rec.Initial
            /\ sch.interval = rec.Interval
            /\ sch.factor = rec.Factor
      [] rec.Type = "Warmup" ->
            /\ sch.cls = "Warmup"
            /\ sch.initial = rec.Initial
            /\ sch.warmed_up = rec.Final
            /\ sch.length = rec.Length

ExampleSpecs ==
    <<[Type |-> "Constant", Value |-> Half],
      [Type |-> "Step", Initial |-> One, Interval |-> MaxInterval,
       Factor |-> Half]>>

\* C1: a list of known records builds a list of the same length whose
\* schedule i is record i's variant with record i's parameters, so a query
\* of element i gives the value of record i's formula; in the example list
\* (a Constant, then a Step halving every MaxInterval epochs) element 1 is
\* always the constant and element 2 is 1, 1/2, 1/4 on the first three
\* intervals.
C1_BuildInOrder ==
    (AllKnown(specs) /\ pc # "start") =>
        /\ pc = "built"
        /\ Len(schedules) = Len(specs)
        /\ \A i \in 1..Len(specs) : SameVariant(specs[i], schedules[i])
        /\ last.idx # 0 => last.res = RecordRate(CurSpec, last.epoch)
        /\ (specs = ExampleSpecs /\ last.idx = 1) => last.res = Ok(Half)
        /\ (specs = ExampleSpecs /\ last.idx = 2) =>
              /\ last.epoch \in 0..(MaxInterval - 1) => last.res = Ok(One)
              /\ last.epoch \in MaxInterval..(2 * MaxInterval - 1) =>
                    last.res = Ok(Half)
              /\ last.epoch \in (2 * MaxInterval)..(3 * MaxInterval - 1) =>
                    last.res = Ok(<<1, 4>>)

C1_Witness ==
    /\ specs = ExampleSpecs
    /\ Queried
    /\ last.idx = 2
    /\ last.epoch = MaxInterval
    /\ prev.idx = 1

\* C2: a list holding a record of unknown Type, at any position, makes the
\* factory fail with an error carrying that type string (the first unknown
\* one); no sequence is returned, neither partial nor with the record
\* skipped or replaced.
C2_UnknownTypeFails ==
    (~AllKnown(specs) /\ pc # "start") =>
        /\ pc = "failed"
        /\ schedules = <<>>
        /\ error = specs[FirstUnknown(specs)].Type
        /\ last = NoQuery

C2_Witness ==
    /\ pc = "failed"
    /\ Len(specs) = MaxSpecs
    /\ specs[1].Type \in KnownTypes
    /\ specs[MaxSpecs].Type = "step"
    /\ error = "step"

\* C3: a Step schedule with interval > 0 queried at an epoch in
\* [k*interval, (k+1)*interval), k >= 0, returns initial * factor**k; in
\* particular epoch 0 returns initial.
C3_StepStaircase ==
    (Queried /\ Cur.cls = "Step" /\ Cur.interval > 0 /\ last.epoch >= 0) =>
        /\ \A k \in 0..MaxEpoch :
              (k * Cur.interval <= last.epoch
                  /\ last.epoch < (k + 1) * Cur.interval) =>
                last.res = Ok(fmul(Cur.initial, Round(RPow(Cur.factor, k))))
        /\ last.epoch = 0 => last.res = Ok(Cur.initial)
        /\ (prev.idx # 0 /\ prev.epoch >= 0
              /\ \E k \in 0..MaxEpoch :
                    /\ k * Cur.interval <= last.epoch
                    /\ last.epoch < (k + 1) * Cur.interval
                    /\ k * Cur.interval <= prev.epoch
                    /\ prev.epoch < (k + 1) * Cur.interval) =>
                prev.res = last.res

C3_Witness ==
    /\ Queried
    /\ Cur.cls = "Step"
    /\ Cur.interval = MaxInterval
    /\ Cur.factor = Half
    /\ Cur.initial = One
    /\ prev.idx # 0
    /\ prev.epoch = MaxInterval
    /\ last.epoch = MaxInterval + 1
    /\ last.res = Ok(Half)

\* C4: a Warmup schedule with length > 0 returns initial at epoch 0 and
\* exactly warmed_up at every epoch > length.
C4_WarmupEnds ==
    (Queried /\ Cur.cls = "Warmup" /\ Cur.length > 0) =>
        /\ last.epoch = 0 => last.res = Ok(Cur.initial)
        /\ last.epoch > Cur.length => last.res = Ok(Cur.warmed_up)

C4_Witness ==
    /\ Queried
    /\ Cur.cls = "Warmup"
    /\ Cur.length > 0
    /\ Cur.warmed_up # Cur.initial
    /\ prev.idx # 0
    /\ prev.epoch = 0
    /\ last.epoch = Cur.length + 1
    /\ last.res = Ok(Cur.warmed_up)

\* both queries were made during the warm-up of a schedule with length > 0
\* and warmed_up # initial, prev at an earlier epoch than last
InWarmupPair ==
    /\ Queried
    /\ prev.idx # 0
    /\ Cur.cls = "Warmup"
    /\ Cur.length > 0
    /\ Cur.warmed_up # Cur.initial
    /\ 0 <= prev.epoch
    /\ prev.epoch < last.epoch
    /\ last.epoch <= Cur.length

Between(x, a, b) ==
    \/ RLeq(a, x) /\ RLeq(x, b)
    \/ RLeq(b, x) /\ RLeq(x, a)

\* C5 as stated: on epochs 0..length the values strictly increase when
\* warmed_up > initial and strictly decrease when warmed_up < initial, and
\* every one lies between initial and warmed_up.
C5_StrictAndBounded ==
    InWarmupPair =>
        /\ RLess(Cur.initial, Cur.warmed_up) =>
              RLess(prev.res.val, last.res.val)
        /\ RLess(Cur.warmed_up, Cur.initial) =>
              RLess(last.res.val, prev.res.val)
        /\ Between(last.res.val, Cur.initial, Cur.warmed_up)

\* C5 amended: on epochs 0..length the values never move against the
\* direction from initial to warmed_up (non-decreasing when
\* warmed_up > initial, non-increasing when warmed_up < initial), and every
\* one lies between initial and the value at epoch == length.
C5_Monotonic ==
    InWarmupPair =>
        /\ prev.res.ok /\ last.res.ok
        /\ RLess(Cur.initial, Cur.warmed_up) =>
              RLeq(prev.res.val, last.res.val)
        /\ RLess(Cur.warmed_up, Cur.initial) =>
              RLeq(last.res.val, prev.res.val)
        /\ Between(prev.res.val, Cur.initial, last.res.val)
        /\ Between(last.res.val, Cur.initial,
                   WarmupGetLearningRate(Cur, Cur.length).val)

C5_Witness ==
    /\ InWarmupPair
    /\ prev.epoch = 1
    /\ last.epoch = 2
    /\ RLess(Cur.warmed_up, Cur.initial)
    /\ RLess(last.res.val, prev.res.val)

\* C6 as stated: a Warmup schedule of length 0 raises a division by zero
\* at whatever epoch it is queried.
C6_ZeroLengthAlwaysFails ==
    (Queried /\ Cur.cls = "Warmup" /\ Cur.length = 0) =>
        last.res = Raise("ZeroDivisionError")

\* C6 amended: a Warmup schedule of length 0 raises a division by zero at
\* every epoch <= 0; at every epoch > 0 the test epoch > length holds and
\* warmed_up is returned.
C6_ZeroLength ==
    (Queried /\ Cur.cls = "Warmup" /\ Cur.length = 0) =>
        /\ last.epoch <= 0 => last.res = Raise("ZeroDivisionError")
        /\ last.epoch > 0 => last.res = Ok(Cur.warmed_up)

C6_Witness ==
    /\ Queried
    /\ Cur.cls = "Warmup"
    /\ Cur.length = 0
    /\ prev.idx # 0
    /\ prev.epoch = 1
    /\ prev.res.ok
    /\ last.epoch = 0
    /\ ~last.res.ok

\* C7: a query changes no parameter of any schedule: after any sequence of
\* queries every schedule still has its construction-time parameters, and
\* every result is the one the construction-time parameters give at that
\* epoch, whatever was queried before.
C7_QueriesLeaveSchedules ==
    pc = "built" =>
        /\ schedules = get_learning_rate_schedules(specs).val
        /\ last.idx # 0 => last.res = RecordRate(CurSpec, last.epoch)
        /\ (last.idx # 0 /\ prev.idx = last.idx /\ prev.epoch = last.epoch)
              => prev.res = last.res

C7_Witness ==
    /\ Queried
    /\ Len(schedules) = MaxSpecs
    /\ prev.idx # 0
    /\ prev.idx # last.idx
    /\ schedules[prev.idx].cls = "Step"
    /\ Cur.cls = "Step"
    /\ last.epoch = MaxInterval

\* C8: a Constant schedule returns its construction-time value at every
\* epoch, zero and negative ones included.
C8_ConstantEverywhere ==
    (Queried /\ Cur.cls = "Constant") => last.res = Ok(CurSpec.Value)

C8_Witness ==
    /\ Queried
    /\ Cur.cls = "Constant"
    /\ last.epoch = -MaxBefore
    /\ prev.idx = last.idx
    /\ prev.epoch = 0
    /\ last.res = Ok(One)

\* the query was made at epoch == length on a schedule with length > 0
AtBoundary == Queried /\ Cur.cls = "Warmup" /\ Cur.length > 0
                 /\ last.epoch = Cur.length

\* initial + (warmed_up - initial) * length / length, each operation rounded
Interpolated(self) ==
    fadd(self.initial,
         Round(RDiv(fmul(fsub(self.warmed_up, self.initial),
                         FromInt(self.length)),
                    FromInt(self.length))))

\* the subtraction and the multiplication of the formula are exact
ExactAtBoundary(self) ==
    /\ IsFloat(RSub(self.warmed_up, self.initial))
    /\ IsFloat(RMul(RSub(self.warmed_up, self.initial), FromInt(self.length)))

\* C9 as stated: the value at epoch == length equals warmed_up, the value
\* at epoch == length + 1.
C9_NoJump ==
    AtBoundary => last.res = WarmupGetLearningRate(Cur, Cur.length + 1)

\* C9 amended: at epoch == length the constant branch is not taken; the
\* result is the interpolated value as the floating-point operations give
\* it, which is warmed_up whenever the subtraction and the multiplication
\* are exact.
C9_BoundaryInterpolates ==
    AtBoundary =>
        /\ last.res = Ok(Interpolated(Cur))
        /\ ExactAtBoundary(Cur) => last.res = Ok(Cur.warmed_up)

C9_Witness ==
    /\ AtBoundary
    /\ Cur.length = MaxLength
    /\ Cur.warmed_up # Cur.initial
    /\ ExactAtBoundary(Cur)
    /\ last.res = Ok(Cur.warmed_up)

\* C10: a Step schedule with interval > 0 queried at a negative epoch in
\* [-m*interval, -(m-1)*interval), m >= 1, returns what
\* initial * factor ** (-m) evaluates to (the exponent is the floor of
\* epoch / interval): the product with the reciprocal power, or the
\* ZeroDivisionError of a zero factor.
C10_NegativeEpochFloors ==
    (Queried /\ Cur.cls = "Step" /\ Cur.interval > 0 /\ last.epoch < 0) =>
        \A m \in 1..MaxBefore :
            (-m * Cur.interval <= last.epoch
                /\ last.epoch < -(m - 1) * Cur.interval) =>
              IF Cur.factor[1] = 0
              THEN last.res = Raise("ZeroDivisionError")
              ELSE last.res =
                     Ok(fmul(Cur.initial,
                             Round(RDiv(One, RPow(Cur.factor, m)))))

C10_Witness ==
    /\ Queried
    /\ Cur.cls = "Step"
    /\ Cur.interval = MaxInterval
    /\ Cur.factor = Half
    /\ Cur.initial = One
    /\ last.epoch = -1
    /\ last.res = Ok(<<2, 1>>)
====
